---------------------------- MODULE Spec2Model ----------------------------
(***************************************************************************)
(* A model of the bracket parser of src/src/lib.rs: the recursive function *)
(* parse and the bracket matcher search_end_bracket.                       *)
(*                                                                         *)
(* A string is a sequence of one-character strings.  Rust offsets are      *)
(* 0-based, so the character at offset i of s is s[i + 1].  A character   *)
(* is Width(ch) bytes long in UTF-8.  The code counts characters with      *)
(* origin.chars() and uses the counts as byte offsets in origin.len() and  *)
(* in the slices origin[a..b]; a slice whose ends are not both on a        *)
(* character boundary panics, which ends every active call.                *)
(*                                                                         *)
(* The recursion of parse is an explicit call stack: one frame per active  *)
(* call, the last frame being the running one.  A frame holds the call's   *)
(* argument and its locals; ret holds the value the last finished call     *)
(* returned to its caller.                                                 *)
(***************************************************************************)
EXTENDS Integers, Sequences, FiniteSets

VARIABLES input, stack, ret

vars == << input, stack, ret >>

---------------------------------------------------------------------------
(* Bounds and inputs *)

\* The longest input that is enumerated exhaustively.
MaxLen == 4

\* The number of characters other than brackets that the exhaustive inputs
\* are built from.
Letters == 2

\* The characters other than brackets, in the order they are taken: of one,
\* two, three and four bytes.  A character above U+00FF is written as its
\* code point: "U+3042" is the one character HIRAGANA LETTER A, "U+1F600"
\* the one character GRINNING FACE.
LetterPool == << "a", "é", "U+3042", "U+1F600", "b" >>

\* The characters the exhaustive inputs are built from.
Alphabet ==
    { LetterPool[i] : i \in 1..Letters } \cup { "(", ")", "{", "}", "[", "]" }

\* The inputs of the tests of src/src/lib.rs.
parse_single_text ==
    << "t" >>
parse_single_bracket ==
    << "t", "e", "x", "t", "(", "a", ")" >>
parse_single_curly ==
    << "t", "e", "x", "t", "{", "a", "a", "a", "}", "t", "e", "s", "t" >>
parse_single_square ==
    << "t", "e", "x", "t", "[", "a", "a", "a", "]", "t", "e", "s", "t" >>
parse_not_closing_bracket ==
    << "t", "e", "x", "t", "(", "a", "a", "a", "]", "t", "e", "s", "t" >>
parse_nest ==
    << "t", "e", "s", "t", " ", "i", "n", "n", "e", "r", "(", "p", "a", "r",
       "{", "c", "u", "r", "l", "y", "[", "s", "q", "u", "a", "r", "e", "]",
       "c", "u", "r", "l", "y", "}", "p", "a", "r", ")" >>
search_end_bracket_origin ==
    << "(", "1", "2", "3", "4", "5", "6", ")",
       "t", "e", "x", "t", "t", "e", "x", "t" >>
search_end_bracket_double ==
    << "(", "1", "2", "3", "4", "5", "6", "(", "8", "9", ")", ")",
       "t", "e", "x", "t", "t", "e", "x", "t" >>
search_end_bracket_none ==
    << "(", "1", "2", "3", "4", "5", "6",
       "t", "e", "x", "t", "t", "e", "x", "t" >>

\* Two more inputs, the worked examples "(1(2)3)" and "(aaa]bbb)".
nesting_example ==
    << "(", "1", "(", "2", ")", "3", ")" >>
cross_kind_example ==
    << "(", "a", "a", "a", "]", "b", "b", "b", ")" >>

\* Inputs with a character of two, three or four bytes before, inside and
\* after a bracket.
multi_byte_examples ==
    { << "é", "(" >>,
      << "(", "é", ")" >>,
      << "(", "a", ")", "é" >>,
      << "é", "a", "(", "b", ")" >>,
      << "(", "é", "é", ")", "(" >>,
      << "(", "é", "é", ")", "a" >>,
      << "U+3042", "(" >>,
      << "(", "U+3042", ")" >>,
      << "(", "a", ")", "U+3042" >>,
      << "U+3042", "a", "b", "(", "c", ")" >>,
      << "U+1F600", "(" >>,
      << "(", "U+1F600", ")" >>,
      << "(", "a", ")", "U+1F600" >>,
      << "U+1F600", "U+3042", "é", "ü" >> }

TestInputs ==
    multi_byte_examples \cup
    { parse_single_text, parse_single_bracket, parse_single_curly,
      parse_single_square, parse_not_closing_bracket, parse_nest,
      search_end_bracket_origin, search_end_bracket_double,
      search_end_bracket_none, nesting_example, cross_kind_example }

\* Every string over Alphabet of at most n characters.
StringsUpTo(n) == UNION { [1..m -> Alphabet] : m \in 0..n }

Inputs == StringsUpTo(MaxLen) \cup TestInputs

---------------------------------------------------------------------------
(* Values *)

\* enum AST
Text(content) == [node |-> "Text", content |-> content]
Parenthesis(inner) == [node |-> "Parenthesis", inner |-> inner]
Curly(inner) == [node |-> "Curly", inner |-> inner]
Square(inner) == [node |-> "Square", inner |-> inner]
Tokens(tokens) == [node |-> "Tokens", tokens |-> tokens]

\* enum ParseError, and Result<AST, ParseError>
HasNoClosing(at) == [error |-> "HasNoClosing", at |-> at]
Ok(ast) == [kind |-> "Ok", ast |-> ast]
Err(err) == [kind |-> "Err", err |-> err]
\* No call has returned to the running frame.
NoReturn == [kind |-> "None"]
\* A slice panicked: parse returns nothing.
Panicked == [kind |-> "Panic"]

\* Option<usize>
None == [tag |-> "None"]
Some(i) == [tag |-> "Some", val |-> i]

\* The characters of the inputs by their number of bytes in UTF-8: U+0000
\* to U+007F, U+0080 to U+07FF, U+0800 to U+FFFF, and U+10000 and above.
OneByteChars ==
    { " ", "(", ")", "[", "]", "{", "}",
      "0", "1", "2", "3", "4", "5", "6", "7", "8", "9",
      "a", "b", "c", "d", "e", "f", "g", "h", "i", "j", "k", "l", "m",
      "n", "o", "p", "q", "r", "s", "t", "u", "v", "w", "x", "y", "z" }
TwoByteChars == { "é", "ü" }
ThreeByteChars == { "U+3042" }
FourByteChars == { "U+1F600" }

\* The number of bytes of the character ch in UTF-8; a character of none of
\* the four sets has no width here.
Width(ch) ==
    CASE ch \in OneByteChars -> 1
      [] ch \in TwoByteChars -> 2
      [] ch \in ThreeByteChars -> 3
      [] ch \in FourByteChars -> 4

\* The number of bytes of the first n characters of origin.
RECURSIVE PrefixBytes(_, _)
PrefixBytes(origin, n) ==
    IF n = 0 THEN 0 ELSE PrefixBytes(origin, n - 1) + Width(origin[n])

\* origin.len(): the number of bytes of origin.
ByteLen(origin) == PrefixBytes(origin, Len(origin))

\* The byte offset at is the start of a character of origin, or its end.
IsCharBoundary(origin, at) ==
    \E n \in 0..Len(origin) : PrefixBytes(origin, n) = at

\* The number of characters of origin that end at or before byte offset at.
CharsBefore(origin, at) ==
    Cardinality({ n \in 1..Len(origin) : PrefixBytes(origin, n) <= at })

\* The slice origin[from..to] does not panic.
SliceOk(origin, from, to) ==
    /\ from <= to
    /\ IsCharBoundary(origin, from)
    /\ IsCharBoundary(origin, to)

\* The slice origin[from..to] by byte offsets (0-based, to exclusive), when it
\* does not panic.
Slice(origin, from, to) ==
    SubSeq(origin, CharsBefore(origin, from) + 1, CharsBefore(origin, to))

\* origin.chars().nth(index)
Nth(origin, index) ==
    IF index < Len(origin) THEN Some(origin[index + 1]) ELSE None

---------------------------------------------------------------------------
(* search_end_bracket *)

OpenChars == { "(", "{", "[" }
CloseChars == { ")", "}", "]" }

\* The match of search_end_bracket on bracket: the pair (open, close).
targets(bracket) ==
    CASE bracket = "Paren" -> << "(", ")" >>
      [] bracket = "Curly" -> << "{", "}" >>
      [] bracket = "Square" -> << "[", "]" >>

\* The for loop of search_end_bracket, from offset index with the counter
\* target_count.
RECURSIVE SearchLoop(_, _, _, _)
SearchLoop(origin, tg, index, target_count) ==
    IF index >= Len(origin) THEN None
    ELSE LET ch == origin[index + 1] IN
         IF ch \in OpenChars
         THEN SearchLoop(origin, tg, index + 1,
                         IF tg[1] = ch THEN target_count + 1 ELSE target_count)
         ELSE IF ch \in CloseChars
         THEN IF tg[2] = ch
              THEN IF target_count - 1 = 0
                   THEN Some(index)
                   ELSE SearchLoop(origin, tg, index + 1, target_count - 1)
              ELSE SearchLoop(origin, tg, index + 1, target_count)
         ELSE SearchLoop(origin, tg, index + 1, target_count)

\* A variant that returns the first close of the kind, counting no nesting.
search_end_bracket_first_close(origin, bracket) ==
    LET closes == { i \in 0..(Len(origin) - 1) :
                      origin[i + 1] = targets(bracket)[2] }
    IN IF closes = {} THEN None
       ELSE Some(CHOOSE i \in closes : \A j \in closes : i <= j)

search_end_bracket(origin, bracket) ==
    SearchLoop(origin, targets(bracket), 0, 0)

---------------------------------------------------------------------------
(* parse *)

\* The bracket an opening character selects.
BracketOf(ch) ==
    IF ch = "(" THEN "Paren"
    ELSE IF ch = "{" THEN "Curly"
    ELSE "Square"

\* The node pushed for a bracket b around parsed_inner.
Wrap(b, parsed_inner) ==
    CASE b = "Paren" -> Parenthesis(parsed_inner)
      [] b = "Curly" -> Curly(parsed_inner)
      [] b = "Square" -> Square(parsed_inner)

\* The text pushed before an opening bracket at index.
FlushBefore(origin, tokens, last_string_start, index) ==
    IF last_string_start # index
    THEN Append(tokens, Text(Slice(origin, last_string_start, index)))
    ELSE tokens

\* A variant that leaves out the case of a one-character origin.
TrailingCondition_naive(origin, last_string_start) ==
    last_string_start < ByteLen(origin) - 1

\* The condition under which the text after the last bracket is pushed.
TrailingCondition(origin, last_string_start) ==
    last_string_start < ByteLen(origin) - 1 \/ ByteLen(origin) = 1

\* The tokens after the loop: the trailing text pushed, or not.
FlushTrailing(origin, tokens, last_string_start) ==
    IF TrailingCondition(origin, last_string_start)
    THEN Append(tokens,
                Text(Slice(origin, last_string_start, ByteLen(origin))))
    ELSE tokens

\* A variant that never unwraps a single token.
Collapse_never(tokens) ==
    Tokens(tokens)

\* The value parse returns for the tokens it has accumulated.
Collapse(tokens) ==
    IF Len(tokens) = 1 THEN tokens[1] ELSE Tokens(tokens)

\* The argument of the recursive call for a bracket at index that closes at
\* index + end_index.
Interior(origin, index, end_index) ==
    Slice(origin, index + 1, index + end_index)

\* Where the scan resumes after a bracket at index that closes at
\* index + end_index: the value given to last_string_start and to index.
AfterClose(index, end_index) ==
    index + end_index + 1

\* The bracket and the matcher's offset of a frame that is not in the loop
\* body of an opening bracket.
NoBracket == "NoBracket"

\* A call of parse(origin), before its first statement.
Call(origin) ==
    [origin |-> origin, pc |-> "entry", tokens |-> << >>,
     last_string_start |-> 0, index |-> 0, b |-> NoBracket, end_index |-> 0]

Running == stack # << >>
Top == stack[Len(stack)]
Pop == SubSeq(stack, 1, Len(stack) - 1)
Replace(frame) == [stack EXCEPT ![Len(stack)] = frame]
Done == stack = << >>

Init ==
    /\ input \in Inputs
    /\ stack = << Call(input) >>
    /\ ret = NoReturn

\* The running call is in its loop, on an opening bracket.
OnOpen ==
    /\ Running
    /\ Top.pc = "loop"
    /\ Nth(Top.origin, Top.index) # None
    /\ Nth(Top.origin, Top.index).val \in OpenChars

\* origin[last_string_start..index], taken when the two differ, does not
\* panic.
FlushOk ==
    \/ Top.last_string_start = Top.index
    \/ SliceOk(Top.origin, Top.last_string_start, Top.index)

\* origin[index..] does not panic.
RestOk == SliceOk(Top.origin, Top.index, ByteLen(Top.origin))

\* origin[index..], the matcher's argument.
Rest == Slice(Top.origin, Top.index, ByteLen(Top.origin))

\* The matcher's result on origin[index..] for the bracket at index.
Found == search_end_bracket(Rest, BracketOf(Nth(Top.origin, Top.index).val))

\* A panic unwinds every active call.
Panic ==
    /\ ret' = Panicked
    /\ stack' = << >>
    /\ UNCHANGED input

\* if origin.len() == 0 { return Ok(AST::Text("")) }
ParseEmpty ==
    /\ Running
    /\ Top.pc = "entry"
    /\ ByteLen(Top.origin) = 0
    /\ ret' = Ok(Text(<< >>))
    /\ stack' = Pop
    /\ UNCHANGED input

\* The locals are initialised and the loop is entered.
ParseBegin ==
    /\ Running
    /\ Top.pc = "entry"
    /\ ByteLen(Top.origin) # 0
    /\ stack' = Replace([Top EXCEPT !.pc = "loop", !.tokens = << >>,
                                    !.last_string_start = 0, !.index = 0])
    /\ UNCHANGED << input, ret >>

\* A loop iteration on a character that opens no bracket.
ScanText ==
    /\ Running
    /\ Top.pc = "loop"
    /\ Nth(Top.origin, Top.index) # None
    /\ Nth(Top.origin, Top.index).val \notin OpenChars
    /\ stack' = Replace([Top EXCEPT !.index = Top.index + 1])
    /\ UNCHANGED << input, ret >>

\* A loop iteration on an opening bracket: the slice of the pending text
\* panics.
PanicFlush ==
    /\ OnOpen
    /\ ~FlushOk
    /\ Panic

\* A loop iteration on an opening bracket: the slice handed to the matcher
\* panics.
PanicRest ==
    /\ OnOpen
    /\ FlushOk
    /\ ~RestOk
    /\ Panic

\* A loop iteration on an opening bracket the matcher finds no close for.
ScanUnclosed ==
    /\ OnOpen
    /\ FlushOk
    /\ RestOk
    /\ Found = None
    /\ ret' = Err(HasNoClosing(Top.index))
    /\ stack' = Pop
    /\ UNCHANGED input

\* A loop iteration on an opening bracket with a close: the slice handed to
\* the recursive call panics.
PanicInterior ==
    /\ OnOpen
    /\ FlushOk
    /\ RestOk
    /\ Found # None
    /\ ~SliceOk(Top.origin, Top.index + 1, Top.index + Found.val)
    /\ Panic

\* A loop iteration on an opening bracket with a close, up to the recursive
\* call on what is between them.
ScanBracket ==
    /\ OnOpen
    /\ FlushOk
    /\ RestOk
    /\ Found # None
    /\ SliceOk(Top.origin, Top.index + 1, Top.index + Found.val)
    /\ stack' =
         Append(Replace([Top EXCEPT
                    !.pc = "call",
                    !.tokens = FlushBefore(Top.origin, Top.tokens,
                                   Top.last_string_start, Top.index),
                    !.b = BracketOf(Nth(Top.origin, Top.index).val),
                    !.end_index = Found.val]),
                Call(Interior(Top.origin, Top.index, Found.val)))
    /\ UNCHANGED << input, ret >>

\* The recursive call returned Ok: the node is pushed and the scan goes on
\* after the closing bracket.
ReturnOk ==
    /\ Running
    /\ Top.pc = "call"
    /\ ret.kind = "Ok"
    /\ stack' = Replace([Top EXCEPT
                   !.pc = "loop",
                   !.tokens = Append(Top.tokens, Wrap(Top.b, ret.ast)),
                   !.last_string_start = AfterClose(Top.index, Top.end_index),
                   !.index = AfterClose(Top.index, Top.end_index),
                   !.b = NoBracket,
                   !.end_index = 0])
    /\ ret' = NoReturn
    /\ UNCHANGED input

\* A variant that moves the offset into the caller's coordinates.
ReturnErr_translated ==
    /\ Running
    /\ Top.pc = "call"
    /\ ret.kind = "Err"
    /\ ret' = Err(HasNoClosing(ret.err.at + Top.index + 1))
    /\ stack' = Pop
    /\ UNCHANGED input

\* The recursive call returned Err(err): return Err(err).
ReturnErr ==
    /\ Running
    /\ Top.pc = "call"
    /\ ret.kind = "Err"
    /\ ret' = Err(ret.err)
    /\ stack' = Pop
    /\ UNCHANGED input

\* The loop breaks at the end of origin and the slice of the trailing text
\* panics.
PanicTrailing ==
    /\ Running
    /\ Top.pc = "loop"
    /\ Nth(Top.origin, Top.index) = None
    /\ TrailingCondition(Top.origin, Top.last_string_start)
    /\ ~SliceOk(Top.origin, Top.last_string_start, ByteLen(Top.origin))
    /\ Panic

\* The loop breaks at the end of origin; the trailing text is pushed and the
\* result returned.
LoopEnd ==
    /\ Running
    /\ Top.pc = "loop"
    /\ Nth(Top.origin, Top.index) = None
    /\ TrailingCondition(Top.origin, Top.last_string_start)
         => SliceOk(Top.origin, Top.last_string_start, ByteLen(Top.origin))
    /\ ret' = Ok(Collapse(FlushTrailing(Top.origin, Top.tokens,
                                        Top.last_string_start)))
    /\ stack' = Pop
    /\ UNCHANGED input

Next ==
    \/ ParseEmpty
    \/ ParseBegin
    \/ ScanText
    \/ PanicFlush
    \/ PanicRest
    \/ ScanUnclosed
    \/ PanicInterior
    \/ ScanBracket
    \/ ReturnOk
    \/ ReturnErr
    \/ PanicTrailing
    \/ LoopEnd

Spec == Init /\ [][Next]_vars

\* A call of parse is not suspended: a step that can be taken is taken.
FairSpec == Spec /\ WF_vars(Next)

---------------------------------------------------------------------------
(* Definitions the properties are stated with *)

Brackets == { "Paren", "Curly", "Square" }

\* s holds none of the six bracket characters.
NoBrackets(s) ==
    \A i \in 1..Len(s) : s[i] \notin (OpenChars \cup CloseChars)

\* The number of offsets 0..e of text that hold the character c.
CountUpTo(text, c, e) ==
    Cardinality({ i \in 0..e : text[i + 1] = c })

\* The offsets of text that hold the close of kind k and up to which text
\* has as many opens of k as closes of k.
BalancedCloses(text, k) ==
    { e \in 0..(Len(text) - 1) :
        /\ text[e + 1] = targets(k)[2]
        /\ CountUpTo(text, targets(k)[1], e)
             - CountUpTo(text, targets(k)[2], e) = 0 }

\* The smallest such offset, if there is one.
MatchingClose(text, k) ==
    IF BalancedCloses(text, k) = {} THEN None
    ELSE Some(CHOOSE e \in BalancedCloses(text, k) :
                  \A f \in BalancedCloses(text, k) : e <= f)

\* The characters of text from character offset i on.
CharsFrom(text, i) == SubSeq(text, i + 1, Len(text))

\* The closing bracket that matches the bracket at character offset i of
\* text, as an offset relative to i.
CloseOf(text, i) == MatchingClose(CharsFrom(text, i), BracketOf(text[i + 1]))

\* The node variant the character ch selects, around child.
Variant(ch, child) ==
    CASE ch = "(" -> Parenthesis(child)
      [] ch = "{" -> Curly(child)
      [] ch = "[" -> Square(child)

\* Every Tokens node of ast, at any depth, has two items or more.
RECURSIVE NoShortTokens(_)
NoShortTokens(ast) ==
    CASE ast.node = "Text" -> TRUE
      [] ast.node = "Tokens" ->
            /\ Len(ast.tokens) >= 2
            /\ \A i \in 1..Len(ast.tokens) : NoShortTokens(ast.tokens[i])
      [] OTHER -> NoShortTokens(ast.inner)

\* The concatenation of the sequences of seqs.
RECURSIVE Concat(_)
Concat(seqs) ==
    IF seqs = << >> THEN << >> ELSE Head(seqs) \o Concat(Tail(seqs))

\* The text a tree stands for.
RECURSIVE Flatten(_)
Flatten(ast) ==
    CASE ast.node = "Text" -> ast.content
      [] ast.node = "Parenthesis" -> << "(" >> \o Flatten(ast.inner) \o << ")" >>
      [] ast.node = "Curly" -> << "{" >> \o Flatten(ast.inner) \o << "}" >>
      [] ast.node = "Square" -> << "[" >> \o Flatten(ast.inner) \o << "]" >>
      [] ast.node = "Tokens" ->
            Concat([i \in 1..Len(ast.tokens) |-> Flatten(ast.tokens[i])])

\* The last node of the output list a returned tree was made from.
LastNode(ast) ==
    IF ast.node = "Tokens" /\ ast.tokens # << >>
    THEN ast.tokens[Len(ast.tokens)]
    ELSE ast

---------------------------------------------------------------------------
(* Properties *)

\* C1: for every input that holds no bracket character, the empty input
\* included, parse returns Ok(Text(input)): one Text node with the whole
\* input, no Tokens node and no error.
C1_BracketFreeIsText ==
    (Done /\ NoBrackets(input)) => ret = Ok(Text(input))

C1_Witness ==
    /\ Done
    /\ NoBrackets(input)
    /\ Len(input) >= 2
    /\ \E i \in 1..Len(input) : input[i] = "é"
    /\ \E i \in 1..Len(input) : input[i] = "U+3042"
    /\ \E i \in 1..Len(input) : input[i] = "U+1F600"
    /\ ret = Ok(Text(input))

\* C2: when the scan of a call reaches an opening bracket at offset i and
\* what follows from i on holds no matching close, the call returns
\* Err(HasNoClosing(i)), i being the offset in the string passed to this
\* call, and returns no tree; parse("text(aaa]test") fails with offset 4.
C2_UnclosedStep ==
    (OnOpen /\ CloseOf(Top.origin, Top.index) = None)
        => /\ ret' = Err(HasNoClosing(Top.index))
           /\ stack' = Pop

C2_UnclosedReportsOpening ==
    /\ [][C2_UnclosedStep]_vars
    /\ []((Done /\ input = parse_not_closing_bracket)
              => ret = Err(HasNoClosing(4)))

\* C3: for a, b, c free of brackets with a not empty and a kind k,
\* parse(a open_k b close_k c) is Tokens[Text(a), k(Text(b)), Text(c)], or
\* Tokens[Text(a), k(Text(b))] when c is empty; and parse("(1(2)3)") is
\* Parenthesis(Tokens[Text("1"), Parenthesis(Text("2")), Text("3")]).
C3_Expected(k, a, b, c) ==
    Ok(Tokens(<< Text(a), Wrap(k, Text(b)) >>
              \o (IF c = << >> THEN << >> ELSE << Text(c) >>)))

C3_SingleBracketShape ==
    Done =>
      /\ \A k \in Brackets : \A i, j \in 1..Len(input) :
           LET a == SubSeq(input, 1, i - 1)
               b == SubSeq(input, i + 1, j - 1)
               c == SubSeq(input, j + 1, Len(input))
           IN (/\ 1 < i
               /\ i < j
               /\ input[i] = targets(k)[1]
               /\ input[j] = targets(k)[2]
               /\ NoBrackets(a) /\ NoBrackets(b) /\ NoBrackets(c))
              => ret = C3_Expected(k, a, b, c)
      /\ input = nesting_example
           => ret = Ok(Parenthesis(Tokens(<< Text(<< "1" >>),
                                            Parenthesis(Text(<< "2" >>)),
                                            Text(<< "3" >>) >>)))

\* C4: search_end_bracket(text, k) is Some(e) for the smallest offset e at
\* which text holds the close of k and has, up to and including e, as many
\* opens of k as closes of k, and None when there is no such offset; the
\* characters of the other two kinds do not count.  Stated of every kind
\* and, at every cursor position of every call, of the characters of origin
\* from the cursor on and of the slice origin[index..] when it is one.
C4_Texts ==
    { CharsFrom(Top.origin, Top.index) } \cup (IF RestOk THEN { Rest } ELSE {})

C4_MatcherFindsBalancedClose ==
    (Running /\ Top.pc = "loop") =>
        \A k \in Brackets : \A text \in C4_Texts :
            search_end_bracket(text, k) = MatchingClose(text, k)

C4_Witness ==
    /\ OnOpen
    /\ RestOk
    /\ input = search_end_bracket_double
    /\ Top.index = 0
    /\ search_end_bracket(Rest, "Paren") = Some(11)
    /\ search_end_bracket(Rest, "Square") = None

\* C5: every Tokens node of a returned tree, at any depth, has at least two
\* items: a call that accumulated one node returns that node, and no call
\* accumulates none.
C5_TokensHaveTwoItems ==
    ret.kind = "Ok" => NoShortTokens(ret.ast)

C5_Witness ==
    /\ Done
    /\ ret.kind = "Ok"
    /\ ret.ast.node = "Tokens"
    /\ Len(ret.ast.tokens) = 2
    /\ ret.ast.tokens[2].node = "Parenthesis"
    /\ ret.ast.tokens[2].inner.node = "Tokens"

\* C6: when the loop of a call ends with last_string_start before the end
\* of origin, origin[last_string_start..] is pushed as the last Text node of
\* the output, whatever its length, one character included.
C6_TrailingStep ==
    (/\ Running
     /\ Top.pc = "loop"
     /\ Nth(Top.origin, Top.index) = None
     /\ Top.last_string_start < ByteLen(Top.origin))
        => /\ ret'.kind = "Ok"
           /\ LastNode(ret'.ast)
                = Text(Slice(Top.origin, Top.last_string_start,
                             ByteLen(Top.origin)))

C6_TrailingRunIsFlushed == [][C6_TrailingStep]_vars

\* C7: for an opening bracket at offset i whose close the matcher finds at
\* relative offset e, the recursive call is made on origin[i+1 .. i+e], the
\* node pushed has the variant the character at i selects around what that
\* call returned, it is the one node pushed, and last_string_start and the
\* cursor both become i + e + 1.
C7_CallStep ==
    (OnOpen /\ CloseOf(Top.origin, Top.index) # None)
        => LET i == Top.index
               e == CloseOf(Top.origin, i).val
           IN /\ Len(stack') = Len(stack) + 1
              /\ stack'[Len(stack')].origin = SubSeq(Top.origin, i + 2, i + e)
              /\ stack'[Len(stack')].pc = "entry"
              /\ stack'[Len(stack)].origin = Top.origin
              /\ stack'[Len(stack)].index = i

C7_ReturnStep ==
    (Running /\ Top.pc = "call" /\ ret.kind = "Ok")
        => LET i == Top.index
               m == CloseOf(Top.origin, i)
           IN /\ m # None
              /\ Len(stack') = Len(stack)
              /\ Top'.origin = Top.origin
              /\ Top'.pc = "loop"
              /\ Top'.tokens
                   = Append(Top.tokens, Variant(Top.origin[i + 1], ret.ast))
              /\ Top'.last_string_start = i + m.val + 1
              /\ Top'.index = i + m.val + 1

C7_BracketNode == [][C7_CallStep /\ C7_ReturnStep]_vars

\* C8: when the recursive call on a bracket's interior fails with
\* HasNoClosing(p), the enclosing call fails at once with the same
\* HasNoClosing(p): p stays an offset of the interior, nothing more of the
\* enclosing level is scanned and no tree is returned.
C8_PropagateStep ==
    (Running /\ ret.kind = "Err")
        => /\ Top.pc = "call"
           /\ ret' = ret
           /\ stack' = Pop

C8_InnerErrorUnchanged ==
    /\ [][C8_PropagateStep]_vars
    /\ []((Done /\ input = << "a", "(", "[", ")" >>)
              => ret = Err(HasNoClosing(0)))

C8_Witness ==
    /\ Done
    /\ input = << "a", "(", "[", ")" >>
    /\ ret = Err(HasNoClosing(0))

\* C9: every call of parse terminates with a tree or an error: a loop
\* iteration moves the cursor forward, by 1 on a character that opens no
\* bracket and by e + 1 with e >= 1 over a matched bracket, and a recursive
\* call receives a string shorter than its caller's.
C9_ProgressStep ==
    /\ (Running /\ Top.pc = "loop" /\ Len(stack') = Len(stack))
           => Top'.index = Top.index + 1
    /\ (OnOpen /\ Len(stack') = Len(stack) + 1)
           => /\ Len(Top'.origin) < Len(Top.origin)
              /\ stack'[Len(stack)].end_index >= 1
    /\ (Running /\ Top.pc = "call" /\ Len(stack') = Len(stack))
           => Top'.index = Top.index + Top.end_index + 1

C9_Terminates ==
    /\ [][C9_ProgressStep]_vars
    /\ [](Done => ret.kind \in { "Ok", "Err" })
    /\ <>Done

\* C10: parsing is lossless: the tree of a successful parse, flattened
\* (a Text to its content, a bracket node to its opening symbol, its
\* flattened child and its closing symbol, a Tokens node to its flattened
\* items in order), is the input.
C10_FlattenIsInput ==
    (Done /\ ret.kind = "Ok") => Flatten(ret.ast) = input

===========================================================================
